---- MODULE Spec2Model ----
(***************************************************************************)
(* Model of machine-learning/jax-haiku-dask-dataframe-distributed-example  *)
(* (a notebook): the sine data set, its split into Dask partitions, the    *)
(* Case 1 training loop (Dask as a lazy loader), the reset cell and the    *)
(* Case 2 training loop (gradients computed by worker tasks, applied on    *)
(* the client in completion order).                                        *)
(*                                                                         *)
(* Real numbers are fixed point integers.  Inputs x are in units of        *)
(* 1/XUnit, targets, parameters, gradients and first moments in units of   *)
(* 1/PUnit.  The network is reduced to its output layer, one hk.Linear(1)  *)
(* unit pred = w*x + b; the three hidden layers are left out.              *)
(***************************************************************************)
EXTENDS Integers, Sequences, FiniteSets

\* ------------------------------------------------------------ bounds

\* Epochs run by each training loop (the notebook runs range(200)).
NumEpochs == 2

\* Outcomes considered for df_all.sample(frac, random_state=42).
NumSampleChoices == 2

\* Outcomes considered for np.random.random([batch_size, num_features]).
NumExampleChoices == 2

\* Worker threads of the cluster started by Client().
NumWorkers == 2

\* ------------------------------------------------------------ fixed point

XUnit == 1000

PUnit == 100000

\* 2 * np.pi in units of 1/XUnit.
TwoPi == 6283

\* ------------------------------------------------------------ data set

num_points == 50

\* train_frac = 0.8, in percent.
train_frac == 80

batch_size == 32

num_features == 1

\* np.sin(np.linspace(0, 2*np.pi, 50)) in units of 1/PUnit; entry i+1 is row i.
SinTable ==
  << 0, 12788, 25365, 37527, 49072, 59811, 69568, 78183, 85514, 91441,
     95867, 98718, 99949, 99538, 97493, 93847, 88660, 82017, 74028, 64823,
     54553, 43388, 31511, 19116, 6407, -6407, -19116, -31511, -43388, -54553,
     -64823, -74028, -82017, -88660, -93847, -97493, -99538, -99949, -98718,
     -95867, -91441, -85514, -78183, -69568, -59811, -49072, -37527, -25365,
     -12788, 0 >>

\* Row i of df_all (i is the pandas index, 0 .. num_points-1).
df_all_row(i) ==
  [index |-> i, x |-> (i * TwoPi) \div (num_points - 1), y |-> SinTable[i + 1]]

\* df_all: one row per point, in index order.
df_all ==
  [i \in 1..num_points |-> df_all_row(i - 1)]

\* Number of rows df.sample(frac=train_frac) draws: round(frac * len(df)).
sample_size ==
  (train_frac * num_points + 50) \div 100

\* The indices df_all.sample(frac=train_frac, random_state=42) leaves out,
\* for outcome k of the sampler: num_points - sample_size indices.
SampleDropped(k) ==
  LET stride == num_points \div (num_points - sample_size)
  IN  {i \in 0..(num_points - 1) : i % stride = k}

RECURSIVE SelectRows(_, _, _)
\* The rows of frame df (from position i on) whose index is in set keep.
SelectRows(df, keep, i) ==
  IF i > Len(df) THEN <<>>
  ELSE IF df[i].index \in keep
       THEN <<df[i]>> \o SelectRows(df, keep, i + 1)
       ELSE SelectRows(df, keep, i + 1)

\* df_train for outcome k, as dd.from_pandas orders it (sorted by index).
df_train_of(k) ==
  SelectRows(df_all, (0..(num_points - 1)) \ SampleDropped(k), 1)

\* df_validation = df_all.drop(labels=df_train.index).
df_validation_of(k) ==
  SelectRows(df_all, SampleDropped(k), 1)

RECURSIVE division_locations(_, _, _)
\* dask's sorted_division_locations for a frame of n rows with a unique index:
\* the positions (0-based) where partitions start, then n.  A position that is
\* the last row is pushed to n, so a final partition never holds a single row.
division_locations(n, chunksize, last) ==
  LET pos == last + chunksize
  IN  IF pos >= n THEN <<n>>
      ELSE IF pos = n - 1 THEN <<n>>
      ELSE <<pos>> \o division_locations(n, chunksize, pos)

\* dd.from_pandas(df, chunksize=...): the partitions of df, each a frame.
from_pandas(df, chunksize) ==
  LET locs == <<0>> \o division_locations(Len(df), chunksize, 0)
  IN  [p \in 1..(Len(locs) - 1) |-> SubSeq(df, locs[p] + 1, locs[p + 1])]

RECURSIVE SumX(_, _)
SumX(df, i) ==
  IF i > Len(df) THEN 0 ELSE df[i].x + SumX(df, i + 1)

RECURSIVE SumSqDev(_, _, _)
SumSqDev(df, mean, i) ==
  IF i > Len(df) THEN 0
  ELSE (df[i].x - mean) * (df[i].x - mean) + SumSqDev(df, mean, i + 1)

RECURSIVE ISqrtIn(_, _, _)
\* The integer square root of n, searched between lo and hi.
ISqrtIn(n, lo, hi) ==
  IF lo >= hi THEN lo
  ELSE LET mid == (lo + hi + 1) \div 2
       IN  IF mid * mid <= n THEN ISqrtIn(n, mid, hi) ELSE ISqrtIn(n, lo, mid - 1)

ISqrt(n) ==
  ISqrtIn(n, 0, 46340)

\* StandardScaler().fit(df[["x"]]): mean and (population) standard deviation.
scaler_fit(df) ==
  LET mean == SumX(df, 1) \div Len(df)
      var  == SumSqDev(df, mean, 1) \div Len(df)
  IN  [mean |-> mean, scale |-> ISqrt(var)]

\* scaler.transform on one frame: adds the column scaled_x.
scaler_transform(df, sc) ==
  [i \in 1..Len(df) |->
     [index |-> df[i].index, x |-> df[i].x, y |-> df[i].y,
      scaled_x |-> ((df[i].x - sc.mean) * XUnit) \div sc.scale]]

\* ddf_train after the scaled_x column is added, for sampler outcome k.
ddf_train_of(k) ==
  LET sc    == scaler_fit(df_train_of(k))
      parts == from_pandas(df_train_of(k), batch_size)
  IN  [p \in 1..Len(parts) |-> scaler_transform(parts[p], sc)]

\* ddf_validation after the scaled_x column is added, for sampler outcome k.
ddf_validation_of(k) ==
  LET sc    == scaler_fit(df_train_of(k))
      parts == from_pandas(df_validation_of(k), batch_size)
  IN  [p \in 1..Len(parts) |-> scaler_transform(parts[p], sc)]

\* ------------------------------------------------------------ network

\* jnp.array(df[[col]].values): an array of shape (rows, 1).
column_values(df, col) ==
  [i \in 1..Len(df) |-> <<df[i][col]>>]

\* A draw of jax.random from key rng: a function of the key alone, in (-1, 1).
random_normal(rng) ==
  ((rng * 48271) % (2 * PUnit + 1)) - PUnit

\* A net_init whose draw depends on the values of example_x and not only on
\* its shape.
net_init_from_values(rng, example_x) ==
  [w |-> random_normal(rng + example_x[1][1]), b |-> 0]

\* net_transform.init(rng, example_x): hk.Linear draws w from rng with a shape
\* given by the number of columns of example_x, and sets b to zero.
net_init(rng, example_x) ==
  [w |-> random_normal(rng + Len(example_x[1]) - 1), b |-> 0]

\* initialize_net_function() when np.random.random returns example_x.
initialize_net_function(example_x) ==
  LET rng == 42
  IN  net_init(rng, example_x)

\* np.random.random([batch_size, num_features]) for outcome r of numpy's
\* unseeded generator.
example_x_of(r) ==
  [i \in 1..batch_size |-> [j \in 1..num_features |-> ((r + 1) * (37 * i + j)) % XUnit]]

\* net_transform.apply(params, x) for one row of x.
net_apply(params, xrow) ==
  (params.w * xrow[1]) \div XUnit + params.b

RECURSIVE SumErrX(_, _, _, _)
\* Sum over the rows from i on of (pred - y_true) * x.
SumErrX(params, x, y, i) ==
  IF i > Len(x) THEN 0
  ELSE ((net_apply(params, x[i]) - y[i][1]) * x[i][1]) \div XUnit
       + SumErrX(params, x, y, i + 1)

RECURSIVE SumErr(_, _, _, _)
\* Sum over the rows from i on of (pred - y_true).
SumErr(params, x, y, i) ==
  IF i > Len(x) THEN 0
  ELSE (net_apply(params, x[i]) - y[i][1]) + SumErr(params, x, y, i + 1)

\* jax.grad(loss_function)(params, x, y): the gradient of the mean squared
\* error average((y_true - y_pred) ** 2) with respect to w and b.
compute_grads(params, x, y) ==
  [w |-> (2 * SumErrX(params, x, y, 1)) \div Len(x),
   b |-> (2 * SumErr(params, x, y, 1)) \div Len(x)]

\* ------------------------------------------------------------ optimizer

\* optix.adam(learning_rate=1e-3): 1 / learning_rate.
learning_rate_inv == 1000

\* adam's b1 = 0.9, in tenths.
adam_b1 == 9

\* adam's b2 = 0.999, in thousandths.
adam_b2 == 999

\* adam's eps, rounded up to the smallest step of the square root's unit.
adam_eps == 1

RECURSIVE PowUnit(_, _, _, _)
\* (num/den)^t in units of 1/unit.
PowUnit(num, den, t, unit) ==
  IF t = 0 THEN unit ELSE (PowUnit(num, den, t - 1, unit) * num) \div den

\* optimizer.init(params) for one leaf: the first moment mu and the second
\* moment nu, both zero.  nu is kept in units of 1/(XUnit^3).
adam_init_leaf == [mu |-> 0, nu |-> 0]

\* optimizer.init(params).
optimizer_init(params) ==
  [count |-> 0, w |-> adam_init_leaf, b |-> adam_init_leaf]

\* One leaf of adam's moment update for gradient g.
adam_moments(leaf, g) ==
  LET gc == g \div (PUnit \div XUnit)
  IN  [mu |-> (adam_b1 * leaf.mu + (10 - adam_b1) * g) \div 10,
       nu |-> leaf.nu - ((1000 - adam_b2) * leaf.nu) \div 1000
              + (1000 - adam_b2) * (gc * gc)]

\* One leaf of adam's update after count steps: the bias corrected
\* -learning_rate * mu_hat / (sqrt(nu_hat) + eps), in units of 1/PUnit.
adam_step(leaf, count) ==
  LET d      == (XUnit * XUnit - PowUnit(adam_b1, 10, count, XUnit * XUnit)) \div XUnit
      c      == XUnit * XUnit - PowUnit(adam_b2, 1000, count, XUnit * XUnit)
      mu_hat == (leaf.mu * XUnit) \div d
      nu_hat == (leaf.nu \div c) * XUnit + ((leaf.nu % c) * XUnit) \div c
      ratio  == (mu_hat * XUnit) \div (ISqrt(nu_hat) + adam_eps)
  IN  -(ratio \div learning_rate_inv)

\* optimizer.update(grads, opt_state): the updates and the new state.
optimizer_update(grads, opt_state) ==
  LET count == opt_state.count + 1
      w     == adam_moments(opt_state.w, grads.w)
      b     == adam_moments(opt_state.b, grads.b)
  IN  [updates   |-> [w |-> adam_step(w, count), b |-> adam_step(b, count)],
       opt_state |-> [count |-> count, w |-> w, b |-> b]]

\* optix.apply_updates(params, updates).
apply_updates(params, updates) ==
  [w |-> params.w + updates.w, b |-> params.b + updates.b]

\* update(params, opt_state, x, y) of Case 1.
update(params, opt_state, x, y) ==
  LET grads == compute_grads(params, x, y)
      res   == optimizer_update(grads, opt_state)
  IN  [params |-> apply_updates(params, res.updates), opt_state |-> res.opt_state]

\* ------------------------------------------------------------ state

VARIABLES
  ddf_train,         \* the partitions of the training frame
  ddf_validation,    \* the partitions of the validation frame
  params,            \* the client's model parameters
  opt_state,         \* the client's optimizer state
  pc,                \* the statement of the notebook the client runs next
  epoch_number,      \* loop variable of the running training loop
  part,              \* position of ddf_one_partition in ddf_train.partitions
  df_one_partition,  \* Case 1: the frame compute() returned
  scaled_x,          \* Case 1: jnp.array of the scaled_x column
  y,                 \* Case 1: jnp.array of the y column
  futures,           \* Case 2: the futures submitted in this epoch
  tasks,             \* Case 2: the scheduler's task of each future
  completed,         \* Case 2: as_completed's queue of finished futures
  grads,             \* Case 2: the result as_completed yielded last
  updates            \* Case 2: the updates optimizer.update returned last

vars ==
  <<ddf_train, ddf_validation, params, opt_state, pc, epoch_number, part,
    df_one_partition, scaled_x, y, futures, tasks, completed, grads, updates>>

\* len(ddf_train.partitions).
npartitions == Len(ddf_train)

\* A future that does not exist (yet): no task on the scheduler.
NoTask == [state |-> "none"]

\* The cells up to optimizer.init have run; the Case 1 loop is about to
\* compute the first partition of epoch 0.
Init ==
  /\ \E k \in 0..(NumSampleChoices - 1) :
       /\ ddf_train = ddf_train_of(k)
       /\ ddf_validation = ddf_validation_of(k)
  /\ \E r \in 0..(NumExampleChoices - 1) :
       params = initialize_net_function(example_x_of(r))
  /\ opt_state = optimizer_init(params)
  /\ pc = "c1_compute"
  /\ epoch_number = 0
  /\ part = 1
  /\ df_one_partition = <<>>
  /\ scaled_x = <<>>
  /\ y = <<>>
  /\ futures = <<>>
  /\ tasks = [p \in 1..Len(ddf_train) |-> NoTask]
  /\ completed = <<>>
  /\ grads = <<>>
  /\ updates = <<>>

\* ------------------------------------------------------------ Case 1

RECURSIVE Concat(_, _)
\* The frames of ddf from position p on, concatenated.
Concat(ddf, p) ==
  IF p > Len(ddf) THEN <<>> ELSE ddf[p] \o Concat(ddf, p + 1)

\* A compute() of the whole collection (ddf_train.compute()) in place of one
\* partition.
compute_whole(ddf, p) ==
  Concat(ddf, 1)

\* ddf_one_partition.compute() for the partition at position p: the frame the
\* client receives.
compute(ddf, p) ==
  ddf[p]

\* df_one_partition = ddf_one_partition.compute()
Case1Compute ==
  /\ pc = "c1_compute"
  /\ df_one_partition' = compute(ddf_train, part)
  /\ pc' = "c1_scaled_x"
  /\ UNCHANGED <<ddf_train, ddf_validation, params, opt_state, epoch_number,
                 part, scaled_x, y, futures, tasks, completed, grads, updates>>

\* scaled_x = jnp.array(df_one_partition[["scaled_x"]].values)
Case1ScaledX ==
  /\ pc = "c1_scaled_x"
  /\ scaled_x' = column_values(df_one_partition, "scaled_x")
  /\ pc' = "c1_y"
  /\ UNCHANGED <<ddf_train, ddf_validation, params, opt_state, epoch_number,
                 part, df_one_partition, y, futures, tasks, completed, grads,
                 updates>>

\* y = jnp.array(df_one_partition[["y"]].values)
Case1Y ==
  /\ pc = "c1_y"
  /\ y' = column_values(df_one_partition, "y")
  /\ pc' = "c1_update"
  /\ UNCHANGED <<ddf_train, ddf_validation, params, opt_state, epoch_number,
                 part, df_one_partition, scaled_x, futures, tasks, completed,
                 grads, updates>>

\* params, opt_state = update(params, opt_state, scaled_x, y), then the two
\* for statements: the next partition, the next epoch, or the end of the loop.
Case1Update ==
  /\ pc = "c1_update"
  /\ LET res == update(params, opt_state, scaled_x, y)
     IN  /\ params' = res.params
         /\ opt_state' = res.opt_state
  /\ IF part < npartitions
       THEN /\ part' = part + 1
            /\ pc' = "c1_compute"
            /\ UNCHANGED epoch_number
       ELSE IF epoch_number + 1 < NumEpochs
            THEN /\ part' = 1
                 /\ epoch_number' = epoch_number + 1
                 /\ pc' = "c1_compute"
            ELSE /\ pc' = "reset_params"
                 /\ UNCHANGED <<part, epoch_number>>
  /\ UNCHANGED <<ddf_train, ddf_validation, df_one_partition, scaled_x, y,
                 futures, tasks, completed, grads, updates>>

\* ------------------------------------------------------------ reset

\* _, params = initialize_net_function()
ResetParams ==
  /\ pc = "reset_params"
  /\ \E r \in 0..(NumExampleChoices - 1) :
       params' = initialize_net_function(example_x_of(r))
  /\ pc' = "reset_opt_state"
  /\ UNCHANGED <<ddf_train, ddf_validation, opt_state, epoch_number, part,
                 df_one_partition, scaled_x, y, futures, tasks, completed,
                 grads, updates>>

\* opt_state = optimizer.init(params), then the Case 2 loop starts epoch 0.
ResetOptState ==
  /\ pc = "reset_opt_state"
  /\ opt_state' = optimizer_init(params)
  /\ epoch_number' = 0
  /\ pc' = "c2_futures"
  /\ UNCHANGED <<ddf_train, ddf_validation, params, part, df_one_partition,
                 scaled_x, y, futures, tasks, completed, grads, updates>>

\* ------------------------------------------------------------ Case 2

\* dask_compute_grads_one_partition_wrapper(ddf, params), run by a worker on
\* the partition frame ddf.
dask_compute_grads_one_partition_wrapper(ddf, params_arg) ==
  compute_grads(params_arg, column_values(ddf, "scaled_x"), column_values(ddf, "y"))

\* A task that reads the client's current params in place of its argument.
task_params_global(p) ==
  params

\* The params argument the task of future p was submitted with.
task_params(p) ==
  tasks[p].args.params

\* The number of tasks a worker thread is running.
NumRunning ==
  Cardinality({p \in 1..npartitions : tasks[p].state = "running"})

\* futures = []: the futures of the epoch before are released.
Case2Futures ==
  /\ pc = "c2_futures"
  /\ futures' = <<>>
  /\ tasks' = [p \in 1..npartitions |-> NoTask]
  /\ completed' = <<>>
  /\ part' = 1
  /\ pc' = "c2_submit"
  /\ UNCHANGED <<ddf_train, ddf_validation, params, opt_state, epoch_number,
                 df_one_partition, scaled_x, y, grads, updates>>

\* A submit loop that leaves for the as_completed loop after its first submit.
Case2SubmitOne ==
  /\ pc = "c2_submit"
  /\ tasks' = [tasks EXCEPT ![part] =
                 [state |-> "pending", args |-> [ddf |-> part, params |-> params]]]
  /\ futures' = Append(futures, part)
  /\ pc' = "c2_as_completed"
  /\ UNCHANGED <<ddf_train, ddf_validation, params, opt_state, epoch_number,
                 part, df_one_partition, scaled_x, y, completed, grads, updates>>

\* futures.append(client.submit(wrapper, ddf_one_partition, params)), then the
\* for statement: the next partition, or on to the as_completed loop.
Case2Submit ==
  /\ pc = "c2_submit"
  /\ tasks' = [tasks EXCEPT ![part] =
                 [state |-> "pending", args |-> [ddf |-> part, params |-> params]]]
  /\ futures' = Append(futures, part)
  /\ IF part < npartitions
       THEN /\ part' = part + 1
            /\ pc' = "c2_submit"
       ELSE /\ pc' = "c2_as_completed"
            /\ UNCHANGED part
  /\ UNCHANGED <<ddf_train, ddf_validation, params, opt_state, epoch_number,
                 df_one_partition, scaled_x, y, completed, grads, updates>>

\* A worker thread takes the pending task of future p.
TaskStart(p) ==
  /\ tasks[p].state = "pending"
  /\ NumRunning < NumWorkers
  /\ tasks' = [tasks EXCEPT ![p].state = "running"]
  /\ UNCHANGED <<ddf_train, ddf_validation, params, opt_state, pc,
                 epoch_number, part, df_one_partition, scaled_x, y, futures,
                 completed, grads, updates>>

\* The task of future p returns its gradients; the future is finished and
\* as_completed will yield it after the futures that finished before.
TaskFinish(p) ==
  /\ tasks[p].state = "running"
  /\ tasks' = [tasks EXCEPT ![p] =
                 [state  |-> "finished",
                  args   |-> tasks[p].args,
                  result |-> dask_compute_grads_one_partition_wrapper(
                               ddf_train[tasks[p].args.ddf], task_params(p))]]
  /\ completed' = Append(completed, p)
  /\ UNCHANGED <<ddf_train, ddf_validation, params, opt_state, pc,
                 epoch_number, part, df_one_partition, scaled_x, y, futures,
                 grads, updates>>

\* for future, grads in as_completed(futures, with_results=True): the next
\* finished future is yielded; the client blocks while none is finished.
Case2Yield ==
  /\ pc = "c2_as_completed"
  /\ completed # <<>>
  /\ grads' = tasks[Head(completed)].result
  /\ completed' = Tail(completed)
  /\ pc' = "c2_update"
  /\ UNCHANGED <<ddf_train, ddf_validation, params, opt_state, epoch_number,
                 part, df_one_partition, scaled_x, y, futures, tasks, updates>>

\* as_completed is exhausted (every future was yielded): the next epoch, or
\* the end of the loop.
Case2Exhausted ==
  /\ pc = "c2_as_completed"
  /\ completed = <<>>
  /\ \A i \in 1..Len(futures) : tasks[futures[i]].state = "finished"
  /\ IF epoch_number + 1 < NumEpochs
       THEN /\ epoch_number' = epoch_number + 1
            /\ pc' = "c2_futures"
       ELSE /\ pc' = "done"
            /\ UNCHANGED epoch_number
  /\ UNCHANGED <<ddf_train, ddf_validation, params, opt_state, part,
                 df_one_partition, scaled_x, y, futures, tasks, completed,
                 grads, updates>>

\* updates, opt_state = optimizer.update(grads, opt_state)
Case2Update ==
  /\ pc = "c2_update"
  /\ LET res == optimizer_update(grads, opt_state)
     IN  /\ updates' = res.updates
         /\ opt_state' = res.opt_state
  /\ pc' = "c2_apply"
  /\ UNCHANGED <<ddf_train, ddf_validation, params, epoch_number, part,
                 df_one_partition, scaled_x, y, futures, tasks, completed,
                 grads>>

\* params = optix.apply_updates(params, updates)
Case2Apply ==
  /\ pc = "c2_apply"
  /\ params' = apply_updates(params, updates)
  /\ pc' = "c2_as_completed"
  /\ UNCHANGED <<ddf_train, ddf_validation, opt_state, epoch_number, part,
                 df_one_partition, scaled_x, y, futures, tasks, completed,
                 grads, updates>>

Next ==
  \/ Case1Compute
  \/ Case1ScaledX
  \/ Case1Y
  \/ Case1Update
  \/ ResetParams
  \/ ResetOptState
  \/ Case2Futures
  \/ Case2Submit
  \/ \E p \in 1..npartitions : TaskStart(p)
  \/ \E p \in 1..npartitions : TaskFinish(p)
  \/ Case2Yield
  \/ Case2Exhausted
  \/ Case2Update
  \/ Case2Apply

Spec ==
  Init /\ [][Next]_vars

\* ------------------------------------------------------------ properties

\* The rows of a frame.
RowsOf(df) ==
  {df[i] : i \in 1..Len(df)}

\* The training partitions of which the client holds rows in a frame.
MaterialisedOnClient ==
  {p \in 1..npartitions : RowsOf(ddf_train[p]) \cap RowsOf(df_one_partition) # {}}

Case2Pcs ==
  {"c2_futures", "c2_submit", "c2_as_completed", "c2_update", "c2_apply"}

\* A step of a worker: a task changes and the client submits nothing.
WorkerStep ==
  /\ tasks' # tasks
  /\ futures' = futures

\* C2: a finished gradient task returns the gradients of its partition at the
\* params it was submitted with; a worker step changes neither params nor
\* opt_state; in the Case 2 loop params changes only in the client's
\* apply_updates statement and opt_state only in its optimizer.update
\* statement.
C2_WorkersOnlyRead ==
  /\ [](\A p \in 1..npartitions :
          tasks[p].state = "finished" =>
            tasks[p].result = dask_compute_grads_one_partition_wrapper(
                                ddf_train[tasks[p].args.ddf], tasks[p].args.params))
  /\ [][WorkerStep => (params' = params /\ opt_state' = opt_state)]_vars
  /\ [][(pc \in Case2Pcs /\ params' # params) => (pc = "c2_apply" /\ ~WorkerStep)]_vars
  /\ [][(pc \in Case2Pcs /\ opt_state' # opt_state)
          => (pc = "c2_update" /\ ~WorkerStep)]_vars

\* C2 witness: a task finished with the params of its submission after the
\* client had already moved its own params on.
C2_Witness ==
  \E p \in 1..npartitions :
    /\ tasks[p].state = "finished"
    /\ tasks[p].args.params # params
    /\ Len(completed) > 0
    /\ Head(completed) = p

\* C3: whenever the client is in the as_completed loop of an epoch, the
\* gradient task of every partition has been submitted; while it is still
\* submitting, no result of the epoch has been applied.
C3_AllSubmittedFirst ==
  /\ pc \in {"c2_as_completed", "c2_update", "c2_apply"}
       => /\ Len(futures) = npartitions
          /\ \A p \in 1..npartitions : tasks[p].state # "none"
  /\ pc = "c2_submit"
       => /\ Len(futures) = part - 1
          /\ opt_state.count = epoch_number * npartitions

\* C3 witness: the gradient tasks of two different partitions are running.
C3_Witness ==
  /\ npartitions >= 2
  /\ \E p, q \in 1..npartitions :
       /\ p # q
       /\ tasks[p].state = "running"
       /\ tasks[q].state = "running"

\* C4: when the reset cell has run, params is what initialize_net_function
\* returns for every outcome of its example input (so what its first call
\* returned), and opt_state has count 0 and zero moments.
C4_ResetIsFresh ==
  (pc = "c2_futures" /\ epoch_number = 0)
    => /\ \A r \in 0..(NumExampleChoices - 1) :
            params = initialize_net_function(example_x_of(r))
       /\ opt_state.count = 0
       /\ opt_state.w = [mu |-> 0, nu |-> 0]
       /\ opt_state.b = [mu |-> 0, nu |-> 0]

\* C4 witness: the reset cell has run after Case 1 loaded and trained on its
\* last partition.
C4_Witness ==
  /\ pc = "c2_futures"
  /\ epoch_number = 0
  /\ df_one_partition = ddf_train[npartitions]
  /\ opt_state.count = 0

\* C5: every partition of ddf_train and of ddf_validation, every batch passed
\* to update() and every batch of a gradient task holds batch_size rows.
C5_PartitionsHoldBatchSize ==
  /\ \A p \in 1..Len(ddf_train) : Len(ddf_train[p]) = batch_size
  /\ \A p \in 1..Len(ddf_validation) : Len(ddf_validation[p]) = batch_size
  /\ pc = "c1_update" => Len(scaled_x) = batch_size
  /\ \A p \in 1..npartitions :
       tasks[p].state # "none" => Len(ddf_train[tasks[p].args.ddf]) = batch_size

RECURSIVE ApplyInOrder(_, _, _)
\* The client's two statements for the gradients of partitions p, p+1, ...,
\* all taken at the params start.
ApplyInOrder(st, start, p) ==
  IF p > npartitions THEN st
  ELSE LET res == optimizer_update(
                    dask_compute_grads_one_partition_wrapper(ddf_train[p], start),
                    st.opt_state)
       IN  ApplyInOrder([params    |-> apply_updates(st.params, res.updates),
                         opt_state |-> res.opt_state], start, p + 1)

RECURSIVE RunInOrder(_, _)
\* e epochs of the Case 2 loop when as_completed yields in submission order.
RunInOrder(st, e) ==
  IF e = 0 THEN st ELSE RunInOrder(ApplyInOrder(st, st.params, 1), e - 1)

\* C6: the Case 2 loop ends with the params and opt_state of the run in which
\* as_completed yields the futures in submission order, whatever the order
\* in which the tasks completed.
C6_OrderIndependent ==
  pc = "done"
    => LET p0 == initialize_net_function(example_x_of(0))
       IN  [params |-> params, opt_state |-> opt_state]
             = RunInOrder([params |-> p0, opt_state |-> optimizer_init(p0)], NumEpochs)

====
